---- MODULE Spec2Model ----
(***************************************************************************)
(* NBA data pipeline: the three batch scripts of the repository.           *)
(*   scripts/ingest.py              paginated fetch, one raw file a season *)
(*   scripts/validate.py            schema validation, error log, reports  *)
(*   scripts/compute_indicators.py  per-team indicators over the clean set *)
(* Each script is a sequential program; it has a specification of its own  *)
(* (SpecIngest, SpecValidate, SpecIndicators).  The remote API and the     *)
(* content of the input files are the environment: every response and      *)
(* every input record is chosen with \E from a small set.                  *)
(***************************************************************************)
EXTENDS Integers, Sequences, FiniteSets, TLC

(***************************************************************************)
(* Bounds of the model.  The source has 5 seasons, MAX_PAGES = 60 and      *)
(* per_page = 100; the model scales them down.                             *)
(***************************************************************************)
NumSeasons == 2
MAX_PAGES == 3
PageSize == 2
\* records in a raw file, rows in the unioned clean table
MaxRecords == 2
MaxRows == 2

\* time.sleep(12): the backoff after a 429 and the pause after a page
SleepSeconds == 12

\* SEASONS = [2020, 2021, ...]
SEASONS == [i \in 1..NumSeasons |-> 2019 + i]

\* next_cursor null / absent (falsy in `while cursor`); cursors are pages >= 2
NoCursor == 0
\* a file that does not exist / a file holding the list `data`
NoFile == [exists |-> FALSE, data |-> <<>>]
FileOf(data) == [exists |-> TRUE, data |-> data]
\* no SUMMARY line printed yet (a printed line has pages >= 1)
NoSummary == [pages |-> 0, games |-> 0]

VARIABLES
    \* ---- scripts/ingest.py
    ipc,        \* position of the script: first, retry, loop, done, crashed
    yearIdx,    \* index in SEASONS of the season being fetched
    page,       \* page
    cursor,     \* cursor (NoCursor or the opaque cursor, here a page number)
    all_games,  \* all_games
    rawFiles,   \* data/raw/games_<season>.json, by season index
    summary,    \* the SUMMARY line printed for each season (pages, games)
    hist,       \* history, by season: what the source served, how it ended
    slept,      \* seconds slept since the last response of this season
    gap,        \* seconds slept between the last response and the last request
    \* ---- scripts/validate.py
    vpc,        \* position of the script: validate, clean, done, crashed
    fileIdx,    \* index in `files` (then in `validate_file`) of the season at hand
    nRead,      \* records of the current file already processed
    validated,  \* data/validated/games_<year>_validated.json, by season index
    errorLog,   \* data/errors/games_<year>_errors.json, by season index
    counters,   \* counters
    cleanTab,   \* data/clean/games_<year>_clean.parquet, by season index
    reports,    \* data/reports/games_<year>_quality_report.json, by season index
    verdicts,   \* history: every raw record processed, with what became of it
    prevCounters, \* history: counters before the last step
    \* ---- scripts/compute_indicators.py
    cpc,        \* position of the script: load, done
    df,         \* df, the unioned clean table
    wins        \* wins

ingestVars == <<ipc, yearIdx, page, cursor, all_games, rawFiles, summary,
                hist, slept, gap>>
validateVars == <<vpc, fileIdx, nRead, validated, errorLog, counters, cleanTab,
                  reports, verdicts, prevCounters>>
indicatorVars == <<cpc, df, wins>>

vars == <<ingestVars, validateVars, indicatorVars>>

otherVarsOfIngest == <<validateVars, indicatorVars>>
otherVarsOfValidate == <<ingestVars, indicatorVars>>
otherVarsOfIndicators == <<ingestVars, validateVars>>

(***************************************************************************)
(* The remote source.  A response is 200 with a page, 429, or another      *)
(* non-2xx status (500).  A 200 page is either PageSize items or empty,    *)
(* and carries a next_cursor or null.                                      *)
(***************************************************************************)
Responses ==
    [status : {200}, nonEmpty : BOOLEAN, hasNext : BOOLEAN]
        \cup {[status |-> 429, nonEmpty |-> FALSE, hasNext |-> FALSE],
              [status |-> 500, nonEmpty |-> FALSE, hasNext |-> FALSE]}

\* the page a request asks for: page 1 without cursor, else the cursor's page
PageOf(c) == IF c = NoCursor THEN 1 ELSE c

\* the items the source holds for page p of season s
PageItems(s, p) == [k \in 1..PageSize |-> <<SEASONS[s], p, k>>]

\* payload.get('data', [])
DataOf(s, c, r) == IF r.nonEmpty THEN PageItems(s, PageOf(c)) ELSE <<>>

\* payload.get("meta", {}).get("next_cursor")
NextCursorOf(c, r) == IF r.hasNext THEN PageOf(c) + 1 ELSE NoCursor

\* a slip: all_games = page_items, the list is overwritten by the last page
ExtendOverwrite(games, items) == items

\* all_games.extend(page_items)
Extend(games, items) == games \o items

\* a slip: page <= MAX_PAGES, one page too many
LoopCondOffByOne(c, p) == c # NoCursor /\ p <= MAX_PAGES

\* while cursor and page < MAX_PAGES
LoopCond(c, p) == c # NoCursor /\ p < MAX_PAGES

\* the items of pages 1..n of season s, in page order
RECURSIVE PagesUpTo(_, _)
PagesUpTo(s, n) == IF n = 0 THEN <<>> ELSE PagesUpTo(s, n - 1) \o PageItems(s, n)

(***************************************************************************)
(* History of a season (not program state).                                *)
(*   outcome   pending | written | failed                                  *)
(*   shape     none: no response yet; full: every response so far was a    *)
(*             200 with a non-empty page and a next cursor; ended_empty:   *)
(*             full pages then empty pages only; other: anything else      *)
(*   nFull     non-empty pages served                                      *)
(*   reqs      requests issued                                             *)
(*   run429    consecutive 429 answers to the current request              *)
(*   max429    the largest run429 of the season                            *)
(*   reissued  the largest run429 a request was issued with                *)
(*   abort     none | http | ratelimit: what aborted the season            *)
(*   held      all_games at the abort                                      *)
(***************************************************************************)
HistInit ==
    [outcome |-> "pending", shape |-> "none", nFull |-> 0, reqs |-> 0,
     run429 |-> 0, max429 |-> 0, reissued |-> 0, abort |-> "none",
     held |-> <<>>]

ShapeAfter(sh, r) ==
    IF r.status # 200 THEN "other"
    ELSE IF r.nonEmpty
         THEN (IF sh \in {"none", "full"} /\ r.hasNext THEN "full" ELSE "other")
         ELSE (IF sh \in {"none", "full", "ended_empty"} THEN "ended_empty" ELSE "other")

Max(a, b) == IF a >= b THEN a ELSE b

\* the history after request/response r
Observe(h, r) ==
    [h EXCEPT !.shape = ShapeAfter(h.shape, r),
              !.nFull = IF r.status = 200 /\ r.nonEmpty THEN @ + 1 ELSE @,
              !.reqs = @ + 1,
              !.reissued = Max(@, h.run429),
              !.run429 = IF r.status = 429 THEN @ + 1 ELSE 0,
              !.max429 = IF r.status = 429 THEN Max(@, h.run429 + 1) ELSE @]

IngestInit ==
    /\ ipc = "first"
    /\ yearIdx = 1
    /\ page = 1
    /\ cursor = NoCursor
    /\ all_games = <<>>
    /\ rawFiles = [s \in 1..NumSeasons |-> NoFile]
    /\ summary = [s \in 1..NumSeasons |-> NoSummary]
    /\ hist = [s \in 1..NumSeasons |-> HistInit]
    /\ slept = 0
    /\ gap = 0

(***************************************************************************)
(* resp.raise_for_status() raised (lines 67, 87): nothing catches it, the  *)
(* script ends with a traceback.  The season's file is not written and no  *)
(* later season is started.                                                *)
(***************************************************************************)
Crash(h, r, p) ==
    /\ ipc' = "crashed"
    /\ page' = p
    /\ hist' = [hist EXCEPT ![yearIdx] =
                   [h EXCEPT !.outcome = "failed",
                             !.abort = IF r.status = 429 THEN "ratelimit" ELSE "http",
                             !.held = all_games]]
    /\ UNCHANGED <<yearIdx, cursor, all_games, rawFiles, summary, slept>>

(***************************************************************************)
(* Lines 103-106, then the next iteration of `for years in SEASONS`        *)
(* (lines 53-55), or the end of the script.                                *)
(***************************************************************************)
WriteAndAdvance(h, c, p, games) ==
    /\ rawFiles' = [rawFiles EXCEPT ![yearIdx] = FileOf(games)]
    /\ summary' = [summary EXCEPT ![yearIdx] = [pages |-> p, games |-> Len(games)]]
    /\ hist' = [hist EXCEPT ![yearIdx] = [h EXCEPT !.outcome = "written"]]
    /\ cursor' = c
    /\ slept' = 0
    /\ IF yearIdx < NumSeasons
       THEN /\ yearIdx' = yearIdx + 1
            /\ page' = 1
            /\ all_games' = <<>>
            /\ ipc' = "first"
       ELSE /\ yearIdx' = yearIdx
            /\ page' = p
            /\ all_games' = games
            /\ ipc' = "done"

\* the test of the while loop, line 77, after `sl` seconds of sleep
LoopTest(h, c, p, games, sl) ==
    IF LoopCond(c, p)
    THEN /\ ipc' = "loop"
         /\ cursor' = c
         /\ page' = p
         /\ all_games' = games
         /\ slept' = sl
         /\ hist' = [hist EXCEPT ![yearIdx] = h]
         /\ UNCHANGED <<rawFiles, summary, yearIdx>>
    ELSE WriteAndAdvance(h, c, p, games)

\* lines 67-77: the first page, once the response is final
HandleFirst(h, r) ==
    IF r.status # 200
    THEN Crash(h, r, page)
    ELSE LoopTest(h, NextCursorOf(NoCursor, r), page,
                  Extend(all_games, DataOf(yearIdx, NoCursor, r)), 0)

\* lines 60-77: the first request, without cursor
FirstRequest ==
    /\ ipc = "first"
    /\ \E r \in Responses :
         LET h == Observe(hist[yearIdx], r) IN
         /\ gap' = 0
         /\ IF r.status = 429
            THEN /\ ipc' = "retry"
                 /\ slept' = SleepSeconds
                 /\ hist' = [hist EXCEPT ![yearIdx] = h]
                 /\ UNCHANGED <<yearIdx, page, cursor, all_games, rawFiles, summary>>
            ELSE HandleFirst(h, r)
    /\ UNCHANGED otherVarsOfIngest

\* lines 65-77: the retry of the first request after a 429
FirstRetry ==
    /\ ipc = "retry"
    /\ \E r \in Responses :
         /\ gap' = slept
         /\ HandleFirst(Observe(hist[yearIdx], r), r)
    /\ UNCHANGED otherVarsOfIngest

\* lines 78-101 and 77: one iteration of the pagination loop
LoopRequest ==
    /\ ipc = "loop"
    /\ \E r \in Responses :
         LET h == Observe(hist[yearIdx], r)
             p == page + 1
             page_items == DataOf(yearIdx, cursor, r)
         IN
         /\ gap' = slept
         /\ IF r.status = 429
            THEN \* sleep, continue
                 LoopTest(h, cursor, p, all_games, SleepSeconds)
            ELSE IF r.status # 200
            THEN Crash(h, r, p)
            ELSE IF page_items = <<>>
            THEN \* break
                 WriteAndAdvance(h, cursor, p, all_games)
            ELSE LoopTest(h, NextCursorOf(cursor, r), p,
                          Extend(all_games, page_items), SleepSeconds)
    /\ UNCHANGED otherVarsOfIngest

IngestNext == FirstRequest \/ FirstRetry \/ LoopRequest

(***************************************************************************)
(*                          scripts/validate.py                            *)
(*                          models/schema.py                               *)
(***************************************************************************)

(***************************************************************************)
(* Raw records.  A JSON value of a raw file is an object or not (a number, *)
(* a string, null, a list).  A field of an object is absent, an integer,   *)
(* or a value of a wrong type (a string that is no number).  Of Game's     *)
(* fields the model keeps id, season, the two scores and the two teams     *)
(* (id, full_name); `rest` says whether the other required fields (date,   *)
(* status, period, time, postseason, datetime, the teams' other strings)   *)
(* are all present and well typed.                                         *)
(***************************************************************************)
IntV(n) == [t |-> "int", v |-> n]
Absent == [t |-> "absent", v |-> 0]
WrongType == [t |-> "str", v |-> 0]

Team(i, name) == [t |-> "team", id |-> IntV(i), full_name |-> name]
NoTeam == [t |-> "absent", id |-> Absent, full_name |-> ""]

Obj(id, season, hs, vs, home, visitor, rest) ==
    [kind |-> "object", id |-> id, season |-> season, home_team_score |-> hs,
     visitor_team_score |-> vs, home_team |-> home, visitor_team |-> visitor,
     rest |-> rest]

\* a JSON value that is no object: json `7`, `"x"`, `null`, `[]`
Scalar ==
    [kind |-> "scalar", id |-> Absent, season |-> Absent,
     home_team_score |-> Absent, visitor_team_score |-> Absent,
     home_team |-> NoTeam, visitor_team |-> NoTeam, rest |-> FALSE]

TeamA == Team(1, "A")
TeamB == Team(2, "B")

\* the raw records the environment puts in the raw files
RawRecords ==
    { Obj(IntV(7), IntV(2020), IntV(3), IntV(0), TeamA, TeamB, TRUE),
      Obj(IntV(8), IntV(2020), IntV(0), IntV(0), TeamB, TeamA, TRUE),
      Obj(IntV(9), IntV(2020), IntV(3), IntV(0), TeamA, TeamA, TRUE),
      Obj(IntV(10), IntV(2020), IntV(-1), IntV(0), TeamA, TeamA, TRUE),
      Obj(IntV(11), IntV(2020), IntV(-1), IntV(0), TeamA, TeamB, TRUE),
      Obj(Absent, IntV(2020), IntV(3), IntV(0), TeamA, TeamB, TRUE),
      Obj(WrongType, Absent, IntV(3), IntV(0), TeamA, TeamB, TRUE),
      Obj(IntV(12), IntV(2020), IntV(3), IntV(0), NoTeam, TeamB, TRUE),
      Obj(IntV(13), IntV(2020), IntV(3), IntV(0), TeamB, TeamB, FALSE),
      Scalar }

(***************************************************************************)
(* Texts, as sequences of characters: `in` and the slice [:300] work on    *)
(* characters.                                                             *)
(***************************************************************************)
\* schema.py line 112: the text of the ValueError
ValueErrorText ==
    <<"H", "o", "m", "e", " ", "a", "n", "d", " ", "v", "i", "s", "i", "t",
      "o", "r", " ", "t", "e", "a", "m", " ", "c", "a", "n", "n", "o", "t",
      " ", "b", "e", " ", "i", "d", "e", "n", "t", "i", "c", "a", "l">>
\* validate.py line 110: the text the classifier looks for
ClassifierText ==
    <<"H", "o", "m", "e", " ", "a", "n", "d", " ", "v", "i", "s", "i", "t",
      "o", "r", " ", "t", "e", "a", "m", "s", " ", "c", "a", "n", "n", "o",
      "t", " ", "b", "e", " ", "i", "d", "e", "n", "t", "i", "c", "a", "l">>
\* pydantic's prefix of a ValueError raised in a validator
ValueErrorPrefix ==
    <<"V", "a", "l", "u", "e", " ", "e", "r", "r", "o", "r", ",", " ">>
\* pydantic's messages of the field errors
MsgMissing ==
    <<"F", "i", "e", "l", "d", " ", "r", "e", "q", "u", "i", "r", "e", "d",
      ";">>
MsgInt ==
    <<"I", "n", "p", "u", "t", " ", "s", "h", "o", "u", "l", "d", " ", "b",
      "e", " ", "a", " ", "v", "a", "l", "i", "d", " ", "i", "n", "t", "e",
      "g", "e", "r", ";">>
MsgGE ==
    <<"I", "n", "p", "u", "t", " ", "s", "h", "o", "u", "l", "d", " ", "b",
      "e", " ", "g", "r", "e", "a", "t", "e", "r", " ", "t", "h", "a", "n",
      " ", "o", "r", " ", "e", "q", "u", "a", "l", " ", "t", "o", " ", "0",
      ";">>
MsgModel ==
    <<"I", "n", "p", "u", "t", " ", "s", "h", "o", "u", "l", "d", " ", "b",
      "e", " ", "a", " ", "v", "a", "l", "i", "d", " ", "d", "i", "c", "t",
      "i", "o", "n", "a", "r", "y", " ", "o", "r", " ", "i", "n", "s", "t",
      "a", "n", "c", "e", " ", "o", "f", " ", "G", "a", "m", "e">>

\* msg[:300]
ReasonLimit == 300
Truncate(msg) == SubSeq(msg, 1, IF Len(msg) < ReasonLimit THEN Len(msg) ELSE ReasonLimit)

\* the Python test `needle in msg`
Contains(needle, msg) ==
    \E i \in 1..(Len(msg) - Len(needle) + 1) :
        SubSeq(msg, i, i + Len(needle) - 1) = needle

(***************************************************************************)
(* models/schema.py                                                        *)
(***************************************************************************)
\* a field declared `int`
IntFieldError(f) ==
    IF f.t = "absent" THEN MsgMissing
    ELSE IF f.t # "int" THEN MsgInt
    ELSE <<>>

\* a field declared IntGE0 = Annotated[int, Field(ge=0)]
IntGE0FieldError(f) ==
    IF f.t = "absent" THEN MsgMissing
    ELSE IF f.t # "int" THEN MsgInt
    ELSE IF f.v < 0 THEN MsgGE
    ELSE <<>>

\* a field declared TeamInfo
TeamFieldError(tm) ==
    IF tm.t = "absent" THEN MsgMissing ELSE IntFieldError(tm.id)

\* the field errors of an object, in the order of the declarations
FieldErrors(rec) ==
    IntFieldError(rec.id) \o IntFieldError(rec.season)
        \o IntGE0FieldError(rec.home_team_score)
        \o IntGE0FieldError(rec.visitor_team_score)
        \o (IF rec.rest THEN <<>> ELSE MsgMissing)
        \o TeamFieldError(rec.home_team) \o TeamFieldError(rec.visitor_team)

\* Game.check_team_different (mode="after": runs once the fields are valid)
check_team_different(rec) ==
    IF rec.home_team.id.v = rec.visitor_team.id.v
    THEN ValueErrorPrefix \o ValueErrorText
    ELSE <<>>

\* g.model_dump_json(): the validated game, unknown fields dropped
Dump(rec) ==
    [id |-> rec.id.v, season |-> rec.season.v,
     home_team_score |-> rec.home_team_score.v,
     visitor_team_score |-> rec.visitor_team_score.v,
     home_team |-> [id |-> rec.home_team.id.v, full_name |-> rec.home_team.full_name],
     visitor_team |-> [id |-> rec.visitor_team.id.v,
                       full_name |-> rec.visitor_team.full_name]]

\* Game.model_validate(game): str(e) of the ValidationError, <<>> if none
model_validate(rec) ==
    IF rec.kind # "object" THEN MsgModel
    ELSE IF FieldErrors(rec) # <<>> THEN FieldErrors(rec)
    ELSE check_team_different(rec)

(***************************************************************************)
(* scripts/validate.py                                                     *)
(***************************************************************************)
\* lines 110-115: the kind of a ValidationError, from its text
Classify(msg) ==
    IF Contains(ClassifierText, msg) THEN "same_team" ELSE "invalid_schema"

\* game.get("id"): None when the key is absent
GetHint(f) == IF f.t = "absent" THEN [t |-> "null", v |-> 0] ELSE f

\* lines 117-122
ErrorRecord(rec, msg) ==
    [type |-> Classify(msg), game_id_hint |-> GetHint(rec.id),
     season |-> GetHint(rec.season), reason |-> Truncate(msg)]

\* flatten(rec), lines 51-82
flatten(rec) ==
    [game_id |-> rec.id, season |-> rec.season,
     home_team_id |-> rec.home_team.id,
     home_team_full_name |-> rec.home_team.full_name,
     home_team_score |-> rec.home_team_score,
     visitor_team_id |-> rec.visitor_team.id,
     visitor_team_full_name |-> rec.visitor_team.full_name,
     visitor_team_score |-> rec.visitor_team_score]

ErrorKinds == {"invalid_schema", "same_team"}
NoReport == [written |-> FALSE, total_valid |-> 0,
             error_counts |-> [k \in ErrorKinds |-> 0]]

ValidateInit ==
    /\ vpc = "validate"
    /\ fileIdx = 1
    /\ nRead = 0
    /\ validated = [s \in 1..NumSeasons |-> NoFile]
    /\ errorLog = [s \in 1..NumSeasons |-> NoFile]
    /\ counters = [k \in ErrorKinds |-> 0]
    /\ cleanTab = [s \in 1..NumSeasons |-> NoFile]
    /\ reports = [s \in 1..NumSeasons |-> NoReport]
    /\ verdicts = {}
    /\ prevCounters = [k \in ErrorKinds |-> 0]

\* open(path, "a") then write(line + "\n")
AppendLine(file, line) == FileOf(file.data \o <<line>>)

(***************************************************************************)
(* Lines 101-126: one iteration of `for game in games_data`.  The record   *)
(* is any raw record.  A ValidationError is classified and counted, then   *)
(* the ErrorRecord is built with game.get(...): on a record that is no     *)
(* dict this raises AttributeError inside the except clause, which nothing *)
(* catches, after the counter was incremented and before the line is       *)
(* written.                                                                *)
(***************************************************************************)
ValidateRecord ==
    /\ vpc = "validate"
    /\ nRead < MaxRecords
    /\ \E game \in RawRecords :
         LET msg == model_validate(game) IN
         /\ prevCounters' = counters
         /\ IF msg = <<>>
            THEN /\ validated' = [validated EXCEPT
                                     ![fileIdx] = AppendLine(@, Dump(game))]
                 /\ verdicts' = verdicts \cup {[rec |-> game, result |-> "valid"]}
                 /\ nRead' = nRead + 1
                 /\ UNCHANGED <<vpc, errorLog, counters>>
            ELSE /\ counters' = [counters EXCEPT ![Classify(msg)] = @ + 1]
                 /\ IF game.kind # "object"
                    THEN /\ vpc' = "crashed"
                         /\ verdicts' = verdicts \cup
                                {[rec |-> game, result |-> "aborted"]}
                         /\ UNCHANGED <<errorLog, validated, nRead>>
                    ELSE /\ errorLog' = [errorLog EXCEPT
                                ![fileIdx] = AppendLine(@, ErrorRecord(game, msg))]
                         /\ verdicts' = verdicts \cup
                                {[rec |-> game, result |-> Classify(msg)]}
                         /\ nRead' = nRead + 1
                         /\ UNCHANGED <<vpc, validated>>
    /\ UNCHANGED <<fileIdx, cleanTab, reports>>
    /\ UNCHANGED otherVarsOfValidate

\* `for game in games_data` is exhausted: the next file, or the second loop
EndOfFile ==
    /\ vpc = "validate"
    /\ nRead' = 0
    /\ prevCounters' = counters
    /\ IF fileIdx < NumSeasons
       THEN fileIdx' = fileIdx + 1 /\ vpc' = vpc
       ELSE fileIdx' = 1 /\ vpc' = "clean"
    /\ UNCHANGED <<validated, errorLog, counters, cleanTab, reports, verdicts>>
    /\ UNCHANGED otherVarsOfValidate

\* the next iteration of `for path in validate_file`, or the end
NextPath ==
    /\ prevCounters' = counters
    /\ IF fileIdx < NumSeasons
       THEN fileIdx' = fileIdx + 1 /\ vpc' = vpc
       ELSE fileIdx' = fileIdx /\ vpc' = "done"

\* lines 134-136: no validated file for this season, nothing is generated
CleanSkip ==
    /\ vpc = "clean"
    /\ ~validated[fileIdx].exists
    /\ NextPath
    /\ UNCHANGED <<nRead, validated, errorLog, counters, cleanTab, reports, verdicts>>
    /\ UNCHANGED otherVarsOfValidate

\* lines 138-165: the clean table and the quality report of this season
CleanAndReport ==
    /\ vpc = "clean"
    /\ validated[fileIdx].exists
    /\ cleanTab' = [cleanTab EXCEPT ![fileIdx] =
            FileOf([i \in 1..Len(validated[fileIdx].data) |->
                        flatten(validated[fileIdx].data[i])])]
    /\ reports' = [reports EXCEPT ![fileIdx] =
            [written |-> TRUE,
             total_valid |-> Cardinality({s \in 1..NumSeasons : validated[s].exists}),
             error_counts |-> counters]]
    /\ NextPath
    /\ UNCHANGED <<nRead, validated, errorLog, counters, verdicts>>
    /\ UNCHANGED otherVarsOfValidate

ValidateNext == ValidateRecord \/ EndOfFile \/ CleanSkip \/ CleanAndReport

(***************************************************************************)
(*                     scripts/compute_indicators.py                       *)
(***************************************************************************)
TeamNames == {"A", "B", "C"}
Scores == {0, 1}

\* a NaN of pandas / a number
NaN == [nan |-> TRUE, v |-> 0]
Num(n) == [nan |-> FALSE, v |-> n]

\* the rows of the clean tables: two different teams and their scores
Rows ==
    {r \in [home_team_full_name : TeamNames, visitor_team_full_name : TeamNames,
            home_team_score : Scores, visitor_team_score : Scores] :
        r.home_team_full_name # r.visitor_team_full_name}

IndicatorsInit ==
    /\ cpc = "load"
    /\ df = <<>>
    /\ wins = [t \in {} |-> NaN]

\* lines 14-15
home_win(r) == r.home_team_score > r.visitor_team_score
visitor_win(r) == r.visitor_team_score > r.home_team_score

\* the index of df.groupby("home_team_full_name") / ("visitor_team_full_name")
HomeIndex(d) == {d[i].home_team_full_name : i \in 1..Len(d)}
VisitorIndex(d) == {d[i].visitor_team_full_name : i \in 1..Len(d)}

\* df.groupby("home_team_full_name")["home_win"].sum()
HomeWinSum(d, t) ==
    Cardinality({i \in 1..Len(d) : d[i].home_team_full_name = t /\ home_win(d[i])})
\* df.groupby("visitor_team_full_name")["visitor_win"].sum()
VisitorWinSum(d, t) ==
    Cardinality({i \in 1..Len(d) : d[i].visitor_team_full_name = t /\ visitor_win(d[i])})

\* Series + Series: aligned on the union of the two indexes, NaN where a
\* label is missing on either side
SeriesAdd(d) ==
    [t \in HomeIndex(d) \cup VisitorIndex(d) |->
        IF t \in HomeIndex(d) /\ t \in VisitorIndex(d)
        THEN Num(HomeWinSum(d, t) + VisitorWinSum(d, t))
        ELSE NaN]

\* lines 8-10: one more row of the clean tables in the union
LoadRow ==
    /\ cpc = "load"
    /\ Len(df) < MaxRows
    /\ \E r \in Rows : df' = df \o <<r>>
    /\ UNCHANGED <<cpc, wins>>
    /\ UNCHANGED otherVarsOfIndicators

\* lines 14-57; sort_values orders the Series and head(10) keeps all of it
\* (the model has fewer than 10 teams): the mapping is the one of the sum.
\* A clean table exists only for a season with a validated record, so df
\* has a row (pd.concat of no table raises before line 14).
Compute ==
    /\ cpc = "load"
    /\ Len(df) >= 1
    /\ wins' = SeriesAdd(df)
    /\ cpc' = "done"
    /\ UNCHANGED df
    /\ UNCHANGED otherVarsOfIndicators

IndicatorsNext == LoadRow \/ Compute

Init == IngestInit /\ ValidateInit /\ IndicatorsInit

SpecIngest == Init /\ [][IngestNext]_vars
SpecValidate == Init /\ [][ValidateNext]_vars
SpecIndicators == Init /\ [][IndicatorsNext]_vars

Seasons == 1..NumSeasons

(***************************************************************************)
(* C1: every request that is answered 429 is retried exactly once after    *)
(* the backoff, and two consecutive 429s on the same request end the       *)
(* season's fetch with a fetch failure: no request is issued a third time, *)
(* a season that saw two 429s in a row has failed, and no season is        *)
(* persisted while its last request is still unanswered by anything but a  *)
(* 429.                                                                    *)
(***************************************************************************)
C1_RetryOnceThenFail ==
    \A s \in Seasons :
        /\ hist[s].reissued <= 1
        /\ hist[s].max429 >= 2 => hist[s].outcome = "failed"
        /\ hist[s].outcome = "written" => hist[s].run429 = 0

(***************************************************************************)
(* C2: with a source that always answers 200 with a non-empty page and a   *)
(* next cursor, a season's fetch issues exactly MAX_PAGES requests,        *)
(* accumulates the items of pages 1..MAX_PAGES, persists them, and does    *)
(* not fail.                                                               *)
(***************************************************************************)
C2_StopsAtMaxPages ==
    \A s \in Seasons :
        hist[s].shape = "full" =>
            /\ hist[s].outcome # "failed"
            /\ hist[s].reqs <= MAX_PAGES
            /\ hist[s].outcome = "written" =>
                   /\ hist[s].reqs = MAX_PAGES
                   /\ summary[s].pages = MAX_PAGES
                   /\ rawFiles[s].data = PagesUpTo(s, MAX_PAGES)
                   /\ Len(rawFiles[s].data) = MAX_PAGES * PageSize

C2_Witness ==
    \E s \in Seasons :
        /\ hist[s].shape = "full"
        /\ hist[s].outcome = "written"
        /\ Len(rawFiles[s].data) = MAX_PAGES * PageSize

\* the source served N non-empty pages, then an empty page, N below the cap
EndedEmpty(s) ==
    /\ hist[s].outcome = "written"
    /\ hist[s].shape = "ended_empty"
    /\ hist[s].nFull < MAX_PAGES

(***************************************************************************)
(* C3 as stated: N non-empty pages of PageSize items then an empty page,   *)
(* N below the cap: the persisted list is the items of pages 1..N in page  *)
(* order (N*PageSize items), and the page counter has not reached          *)
(* MAX_PAGES when the loop stops.                                          *)
(***************************************************************************)
C3_PageCounterBelowCap ==
    \A s \in Seasons :
        EndedEmpty(s) =>
            /\ rawFiles[s].data = PagesUpTo(s, hist[s].nFull)
            /\ Len(rawFiles[s].data) = hist[s].nFull * PageSize
            /\ summary[s].pages < MAX_PAGES

(***************************************************************************)
(* C3 amended: the persisted list is the items of pages 1..N in page       *)
(* order (N*PageSize items); for N >= 1 the loop stops on the empty page,  *)
(* whose request the page counter has counted: N + 1 requests were issued  *)
(* and the page counter is N + 1, at most MAX_PAGES (equal to it when      *)
(* N = MAX_PAGES - 1).                                                     *)
(***************************************************************************)
C3_EmptyPageStops ==
    \A s \in Seasons :
        EndedEmpty(s) =>
            /\ rawFiles[s].data = PagesUpTo(s, hist[s].nFull)
            /\ Len(rawFiles[s].data) = hist[s].nFull * PageSize
            /\ summary[s].games = hist[s].nFull * PageSize
            /\ summary[s].pages <= MAX_PAGES
            /\ hist[s].nFull >= 1 =>
                   /\ summary[s].pages = hist[s].nFull + 1
                   /\ hist[s].reqs = hist[s].nFull + 1

C3_Witness ==
    \E s \in Seasons :
        /\ EndedEmpty(s)
        /\ hist[s].nFull >= 2
        /\ hist[s].nFull = MAX_PAGES - 1
        /\ Len(rawFiles[s].data) = hist[s].nFull * PageSize

(***************************************************************************)
(* C6: a fatal fetch error in one season aborts only that season: when the *)
(* script has ended, every season after a failed one has been fetched, and *)
(* has its raw file unless it failed too.                                  *)
(***************************************************************************)
C6_LaterSeasonsStillFetched ==
    ipc \in {"done", "crashed"} =>
        \A s, t \in Seasons :
            (s < t /\ hist[s].outcome = "failed") =>
                /\ hist[t].outcome # "pending"
                /\ hist[t].outcome = "written" => rawFiles[t].exists

(***************************************************************************)
(* C7: a season aborted by a non-rate-limit HTTP error after at least one  *)
(* page was accumulated keeps the accumulated items: they are in the       *)
(* season's raw file after the abort.                                      *)
(***************************************************************************)
C7_PartialResultsKept ==
    \A s \in Seasons :
        (hist[s].abort = "http" /\ Len(hist[s].held) >= 1) =>
            rawFiles[s] = FileOf(hist[s].held)

(***************************************************************************)
(* C10: every request of a season after its first is issued after a sleep  *)
(* of SleepSeconds since the previous response.                            *)
(***************************************************************************)
C10_DelayBeforeEveryLaterPage ==
    hist[yearIdx].reqs >= 2 => gap >= SleepSeconds

\* a record whose only defect is that its two teams have the same id
SameTeamOtherwiseValid(rec) ==
    /\ rec.kind = "object"
    /\ FieldErrors(rec) = <<>>
    /\ rec.home_team.id.v = rec.visitor_team.id.v

(***************************************************************************)
(* C4: every raw record whose home_team.id equals its visitor_team.id and  *)
(* which is otherwise schema-valid is recorded as an ErrorRecord of kind   *)
(* same_team and counted by the same_team counter.                         *)
(***************************************************************************)
C4_SameTeamClassified ==
    /\ \A v \in verdicts :
           SameTeamOtherwiseValid(v.rec) => v.result = "same_team"
    /\ (\E v \in verdicts : SameTeamOtherwiseValid(v.rec)) =>
           counters["same_team"] >= 1

(***************************************************************************)
(* C5: validation never aborts on a bad record: the script does not end on *)
(* a record, every record processed was written to the valid stream or     *)
(* captured as one classified ErrorRecord, and the lines written for the   *)
(* file at hand are as many as the records read from it.                   *)
(***************************************************************************)
C5_NeverAbortsOnARecord ==
    /\ vpc # "crashed"
    /\ \A v \in verdicts : v.result \in {"valid"} \cup ErrorKinds
    /\ vpc = "validate" =>
           Len(validated[fileIdx].data) + Len(errorLog[fileIdx].data) = nRead

\* the ErrorRecord lines of kind k in the error logs of seasons 1..n
RECURSIVE LinesOfKind(_, _)
LinesOfKind(k, n) ==
    IF n = 0 THEN 0
    ELSE LinesOfKind(k, n - 1)
           + Cardinality({i \in 1..Len(errorLog[n].data) : errorLog[n].data[i].type = k})

(***************************************************************************)
(* C8: during a validation run no counter decreases, each counter equals   *)
(* the number of ErrorRecord lines of its kind written to the error logs   *)
(* so far, and so do the counts of every quality report written.           *)
(***************************************************************************)
C8_CountersEqualLinesWritten ==
    \A k \in ErrorKinds :
        /\ counters[k] >= prevCounters[k]
        /\ counters[k] = LinesOfKind(k, NumSeasons)
        /\ \A s \in Seasons :
               reports[s].written => reports[s].error_counts[k] = LinesOfKind(k, NumSeasons)

\* the games of d that team t won, at home or away, by a strict comparison
GamesWon(d, t) ==
    {i \in 1..Len(d) :
        \/ d[i].home_team_full_name = t /\ d[i].home_team_score > d[i].visitor_team_score
        \/ d[i].visitor_team_full_name = t /\ d[i].visitor_team_score > d[i].home_team_score}

(***************************************************************************)
(* C9: for every team of the unioned clean table, as home team, as visitor *)
(* or both, the win count is the number of its home games won plus the     *)
(* number of its away games won; a tie adds to neither.                    *)
(***************************************************************************)
C9_WinsAreHomePlusAway ==
    cpc = "done" =>
        \A t \in HomeIndex(df) \cup VisitorIndex(df) :
            /\ t \in DOMAIN wins
            /\ wins[t] = Num(Cardinality(GamesWon(df, t)))
====
